---- MODULE Spec2Model ----
(***************************************************************************)
(* Model of parse_transcript.py: the extractor (parse_transcript), the     *)
(* merger (merge_transcripts), the formatter (format_to_markdown) and the  *)
(* caller (main).                                                          *)
(*                                                                         *)
(* Text is a sequence of one-character strings, so that concatenation and  *)
(* the newline structure of the rendering are visible.  A JSON object is a *)
(* record carrying the tag json = "object" plus the keys it has; a JSON    *)
(* null is the record [json |-> "null"].  A Python list object lives in    *)
(* heap, a sequence of lists indexed by the list's identity.  An optional  *)
(* value (None or a value) is a sequence of length 0 or 1.                 *)
(***************************************************************************)
EXTENDS Integers, Sequences, FiniteSets, TLC

VARIABLES
    pc,                \* position of main
    file_paths,        \* sys.argv[1:]
    fs,                \* what the file system holds for each path
    idx,               \* position of the for loop over file_paths
    heap,              \* the list objects: identity -> elements
    all_transcripts,   \* optional identity of main's list of parsed lists
    merged_transcript, \* optional identity of the list main renders
    markdown_output,   \* optional text returned by format_to_markdown
    transcript_md,     \* optional content of the file transcript.md
    exit_status,       \* optional exit status of the process
    stdout,            \* the messages printed so far
    call,              \* which call a function harness has made
    transcripts,       \* harness: optional identity of merge_transcripts' argument
    ret,               \* harness: optional identity returned by merge_transcripts
    document,          \* harness: the file given to parse_transcript
    extracted,         \* harness: optional outcome of parse_transcript
    transcript,        \* harness: the argument of format_to_markdown
    rendered           \* harness: optional text returned by format_to_markdown

mainVars == <<pc, file_paths, fs, idx, all_transcripts, merged_transcript,
              markdown_output, transcript_md, exit_status, stdout>>
mergeVars == <<transcripts, ret>>
extractVars == <<document, extracted>>
formatVars == <<transcript, rendered>>
vars == <<mainVars, heap, call, mergeVars, extractVars, formatVars>>

----------------------------------------------------------------------------
(* Bounds *)

MaxTime == 2
MaxTotal == 3
MaxRecords == 3
MaxWords == 2
MaxSentences == 1
MaxParagraphs == 2
MaxFiles == 2

----------------------------------------------------------------------------
(* Text *)

NL == <<"\n">>
Alice == <<"A", "l", "i", "c", "e">>
Bob == <<"B", "o", "b">>
Hello == <<"H", "e", "l", "l", "o">>
Hi == <<"H", "i">>
There == <<" ", "t", "h", "e", "r", "e">>
\* the placeholder of line 34, one token per code point of the literal
UnknownSpeaker == <<"U+672A", "U+77E5", "U+53D1", "U+8A00", "U+4EBA">>

\* sep.join(parts)
RECURSIVE Join(_, _)
Join(sep, parts) ==
    IF parts = <<>> THEN <<>>
    ELSE IF Len(parts) = 1 THEN parts[1]
    ELSE parts[1] \o sep \o Join(sep, Tail(parts))

\* the sequences over S of length at most n
BoundedSeq(S, n) == UNION {[1..k -> S] : k \in 0..n}

----------------------------------------------------------------------------
(* JSON values and dict.get *)

Null == [json |-> "null"]
IsObject(v) == v.json = "object"

\* d.get(k, default) on a dict d
Get(d, k, default) == IF k \in DOMAIN d THEN d[k] ELSE default

----------------------------------------------------------------------------
(* parse_transcript *)

Raise == [raised |-> TRUE, value |-> <<>>]
Return(v) == [raised |-> FALSE, value |-> v]

\* every text is kept, the empty ones too
RECURSIVE WordPartsUnfiltered(_)
WordPartsUnfiltered(words) ==
    IF words = <<>> THEN <<>>
    ELSE <<Get(words[1], "text", <<>>)>> \o WordPartsUnfiltered(Tail(words))

\* lines 39-42: the non-empty texts of one sentence's words, in order
RECURSIVE WordParts(_)
WordParts(words) ==
    IF words = <<>> THEN <<>>
    ELSE LET text == Get(words[1], "text", <<>>)
         IN  (IF text # <<>> THEN <<text>> ELSE <<>>) \o WordParts(Tail(words))

\* lines 37-42: content_parts of one paragraph
RECURSIVE ContentParts(_)
ContentParts(sentences) ==
    IF sentences = <<>> THEN <<>>
    ELSE WordParts(Get(sentences[1], "words", <<>>)) \o ContentParts(Tail(sentences))

\* paragraph['speaker']['user_name']: an absent key raises
SpeakerNameStrict(paragraph) ==
    IF "speaker" \in DOMAIN paragraph /\ IsObject(paragraph.speaker)
           /\ "user_name" \in DOMAIN paragraph.speaker
    THEN Return(paragraph.speaker.user_name)
    ELSE Raise

\* line 34: the speaker of a paragraph; .get on a null speaker raises
SpeakerName(paragraph) ==
    LET speaker == Get(paragraph, "speaker", [json |-> "object"])
    IN  IF IsObject(speaker)
        THEN Return(Get(speaker, "user_name", UnknownSpeaker))
        ELSE Raise

\* lines 32-52: the loop over the paragraphs, from the list built so far
RECURSIVE ParagraphLoop(_, _)
ParagraphLoop(paragraphs, acc) ==
    IF paragraphs = <<>> THEN Return(acc)
    ELSE LET paragraph == paragraphs[1]
             speaker_name == SpeakerName(paragraph)
             content_parts == ContentParts(Get(paragraph, "sentences", <<>>))
         IN  IF speaker_name.raised THEN Raise
             ELSE IF content_parts # <<>>
             THEN ParagraphLoop(Tail(paragraphs),
                      Append(acc, [speaker_name |-> speaker_name.value,
                                   content |-> Join(<<>>, content_parts),
                                   start_time |-> Get(paragraph, "start_time", 0)]))
             ELSE ParagraphLoop(Tail(paragraphs), acc)

\* lines 23-54: a file is missing, holds text that is no JSON, or holds data
parse_transcript(file) ==
    IF file.kind # "json" THEN Raise
    ELSE LET data == file.data
         IN  IF "minutes" \in DOMAIN data /\ "paragraphs" \in DOMAIN data.minutes
             THEN ParagraphLoop(data.minutes.paragraphs, <<>>)
             ELSE Return(<<>>)

----------------------------------------------------------------------------
(* list.sort(key = start_time): for fewer than 64 elements CPython finds   *)
(* the leading run, reverses it when strictly descending, and inserts the  *)
(* remaining elements by binary insertion.                                 *)

Key(x) == x.start_time

Reverse(s) == [k \in 1..Len(s) |-> s[Len(s) + 1 - k]]

\* a descending run that takes equal keys in
RECURSIVE RunLengthWeak(_, _, _)
RunLengthWeak(s, n, desc) ==
    IF n >= Len(s) THEN n
    ELSE IF desc /\ Key(s[n + 1]) <= Key(s[n]) THEN RunLengthWeak(s, n + 1, desc)
    ELSE IF ~desc /\ ~(Key(s[n + 1]) < Key(s[n])) THEN RunLengthWeak(s, n + 1, desc)
    ELSE n

\* length of the leading run of s that starts descending (desc) or not
RECURSIVE RunLength(_, _, _)
RunLength(s, n, desc) ==
    IF n >= Len(s) THEN n
    ELSE IF desc /\ Key(s[n + 1]) < Key(s[n]) THEN RunLength(s, n + 1, desc)
    ELSE IF ~desc /\ ~(Key(s[n + 1]) < Key(s[n])) THEN RunLength(s, n + 1, desc)
    ELSE n

\* the slot before every element that is not smaller
RECURSIVE BisectLeft(_, _, _, _)
BisectLeft(s, pivot, lo, hi) ==
    IF lo >= hi THEN lo
    ELSE LET p == lo + ((hi - lo) \div 2)
         IN  IF Key(s[p + 1]) < Key(pivot)
             THEN BisectLeft(s, pivot, p + 1, hi)
             ELSE BisectLeft(s, pivot, lo, p)

\* the slot of pivot in the sorted prefix s[1..Len(s)]: after every element
\* that is not greater, found by bisection of lo..hi (0-based, hi excluded)
RECURSIVE BisectRight(_, _, _, _)
BisectRight(s, pivot, lo, hi) ==
    IF lo >= hi THEN lo
    ELSE LET p == lo + ((hi - lo) \div 2)
         IN  IF Key(pivot) < Key(s[p + 1])
             THEN BisectRight(s, pivot, lo, p)
             ELSE BisectRight(s, pivot, p + 1, hi)

InsertAt(s, k, x) == SubSeq(s, 1, k) \o <<x>> \o SubSeq(s, k + 1, Len(s))

\* binary insertion of rest into the sorted prefix
RECURSIVE BinarySort(_, _)
BinarySort(sorted, rest) ==
    IF rest = <<>> THEN sorted
    ELSE BinarySort(InsertAt(sorted, BisectRight(sorted, rest[1], 0, Len(sorted)), rest[1]),
                    Tail(rest))

Sort(s) ==
    IF Len(s) < 2 THEN s
    ELSE LET desc == Key(s[2]) < Key(s[1])
             n == RunLength(s, 2, desc)
             run == IF desc THEN Reverse(SubSeq(s, 1, n)) ELSE SubSeq(s, 1, n)
         IN  BinarySort(run, SubSeq(s, n + 1, Len(s)))

----------------------------------------------------------------------------
(* merge_transcripts, on the heap of list objects *)

\* merged is the first list instead of a new one
NewListAlias(h) == [heap |-> h, ref |-> 1]

\* line 67: merged = [] is a new list object, with a new identity
NewList(h) == [heap |-> Append(h, <<>>), ref |-> Len(h) + 1]

\* lines 68-69: merged.extend(transcript) for the k-th and later elements of
\* the outer list
RECURSIVE ExtendAll(_, _, _, _)
ExtendAll(h, merged, outer, k) ==
    IF k > Len(h[outer]) THEN h
    ELSE ExtendAll([h EXCEPT ![merged] = @ \o h[h[outer][k]]], merged, outer, k + 1)

\* lines 67-74: the heap after the call on the outer list, and the identity
\* of the list returned
merge_transcripts(h, outer) ==
    LET new == NewList(h)
        merged == new.ref
        h1 == ExtendAll(new.heap, merged, outer, 1)
    IN  [heap |-> [h1 EXCEPT ![merged] = Sort(@)], ret |-> merged]

\* merge_transcripts as a function of values: the lists are the objects 1..n
\* and the outer list is the object n + 1
Merge(lists) ==
    LET n == Len(lists)
        r == merge_transcripts(Append(lists, [k \in 1..n |-> k]), n + 1)
    IN  r.heap[r.ret]

----------------------------------------------------------------------------
(* format_to_markdown *)

\* the line without the newline at its end
LineBare(record) ==
    <<"*", "*", "[">> \o record.speaker_name \o <<"]", "*", "*", ":", " ">>
        \o record.content

\* line 94: the f-string, which ends with a newline
Line(record) ==
    <<"*", "*", "[">> \o record.speaker_name \o <<"]", "*", "*", ":", " ">>
        \o record.content \o NL

\* lines 87-96
format_to_markdown(ts) == Join(NL, [k \in 1..Len(ts) |-> Line(ts[k])])

----------------------------------------------------------------------------
(* Inputs *)

Obj == [json |-> "object"]

\* a JSON object with the key k added
With(d, k, v) == [x \in DOMAIN d \cup {k} |-> IF x = k THEN v ELSE d[x]]

\* d with the key k when the optional value opt is present
WithOpt(d, k, opt) == IF opt = <<>> THEN d ELSE With(d, k, opt[1])

\* an optional element of S
Optional(S) == {<<>>} \cup {<<v>> : v \in S}

Texts == {<<>>, Hi, There}
Words == {WithOpt(Obj, "text", t) : t \in Optional(Texts)}
Sentences == {WithOpt(Obj, "words", w) : w \in Optional(BoundedSeq(Words, MaxWords))}
Speakers == {Null, Obj, With(Obj, "user_name", Alice)}
StartTimes == {1}

Paragraphs ==
    {WithOpt(WithOpt(WithOpt(Obj, "speaker", sp), "sentences", se), "start_time", st) :
        sp \in Optional(Speakers),
        se \in Optional(BoundedSeq(Sentences, MaxSentences)),
        st \in Optional(StartTimes)}

WordsOf(texts) == [k \in 1..Len(texts) |-> With(Obj, "text", texts[k])]
SentenceOf(texts) == With(Obj, "words", WordsOf(texts))

\* Alice at time 1
pA == [json |-> "object", speaker |-> With(Obj, "user_name", Alice),
       sentences |-> <<SentenceOf(<<Hello>>)>>, start_time |-> 1]
\* no speaker and no start_time, an empty fragment among the words
pB == [json |-> "object", sentences |-> <<SentenceOf(<<Hi, <<>>, There>>)>>]
\* nothing but empty fragments
pE == [json |-> "object", speaker |-> With(Obj, "user_name", Alice),
       sentences |-> <<SentenceOf(<<<<>>>>), Obj>>, start_time |-> 1]
\* a null speaker
pN == [json |-> "object", speaker |-> Null,
       sentences |-> <<SentenceOf(<<Hi>>)>>, start_time |-> 1]

DocOf(paragraphs) == With(Obj, "minutes", With(Obj, "paragraphs", paragraphs))
NoMinutes == Obj
NoParagraphs == With(Obj, "minutes", Obj)

ExtractDocuments ==
    {NoMinutes, NoParagraphs}
        \cup {DocOf(ps) : ps \in BoundedSeq({pA, pB, pE, pN}, MaxParagraphs)}
        \cup {DocOf(<<p>>) : p \in Paragraphs}

MainDocuments ==
    {NoMinutes, DocOf(<<pA, pN>>)}
        \cup {DocOf(ps) : ps \in BoundedSeq({pA, pB}, MaxParagraphs)}

Missing == [kind |-> "missing"]
Garbage == [kind |-> "garbage"]
JsonFile(data) == [kind |-> "json", data |-> data]
FileStates == {Missing, Garbage} \cup {JsonFile(d) : d \in MainDocuments}

Utterances == [speaker_name : {Alice, Bob}, content : {Hi}, start_time : 0..MaxTime]
FormatRecords ==
    [speaker_name : {Alice, UnknownSpeaker}, content : {Hello, Hi \o There}, start_time : {0}]

----------------------------------------------------------------------------
(* main *)

None == <<>>
Some(v) == <<v>>

\* the state of main before it starts
MainIdle ==
    /\ pc = "main"
    /\ idx = 1
    /\ all_transcripts = None
    /\ merged_transcript = None
    /\ markdown_output = None
    /\ transcript_md = None
    /\ exit_status = None
    /\ stdout = <<>>

HarnessIdle ==
    /\ call = "none"
    /\ transcripts = None
    /\ ret = None
    /\ document = Missing
    /\ extracted = None
    /\ transcript = <<>>
    /\ rendered = None

Init ==
    /\ MainIdle
    /\ HarnessIdle
    /\ heap = <<>>
    /\ \E n \in 0..MaxFiles :
           /\ file_paths = [k \in 1..n |-> k]
           /\ fs \in [1..n -> FileStates]

harnessVars == <<call, mergeVars, extractVars, formatVars>>

\* lines 101-106: no argument
Usage ==
    /\ pc = "main"
    /\ Len(file_paths) < 1
    /\ stdout' = stdout \o <<<<"usage">>>>
    /\ exit_status' = Some(1)
    /\ pc' = "exit"
    /\ UNCHANGED <<file_paths, fs, idx, heap, all_transcripts, merged_transcript,
                   markdown_output, transcript_md, harnessVars>>

\* lines 108-112: the loop starts
StartLoop ==
    /\ pc = "main"
    /\ Len(file_paths) >= 1
    /\ heap' = Append(heap, <<>>)
    /\ all_transcripts' = Some(Len(heap) + 1)
    /\ pc' = "loop"
    /\ UNCHANGED <<file_paths, fs, idx, merged_transcript, markdown_output,
                   transcript_md, exit_status, stdout, harnessVars>>

\* lines 113-115: the path does not exist
SkipMissing ==
    /\ pc = "loop"
    /\ idx <= Len(file_paths)
    /\ fs[file_paths[idx]].kind = "missing"
    /\ stdout' = Append(stdout, <<"warning: missing", file_paths[idx]>>)
    /\ idx' = idx + 1
    /\ UNCHANGED <<pc, file_paths, fs, heap, all_transcripts, merged_transcript,
                   markdown_output, transcript_md, exit_status, harnessVars>>

\* lines 117-121: parse_transcript returns a new list, which is appended
ParseOk ==
    /\ pc = "loop"
    /\ idx <= Len(file_paths)
    /\ fs[file_paths[idx]].kind # "missing"
    /\ LET r == parse_transcript(fs[file_paths[idx]])
       IN  /\ ~r.raised
           /\ heap' = [Append(heap, r.value) EXCEPT
                         ![all_transcripts[1]] = Append(@, Len(heap) + 1)]
           /\ stdout' = stdout \o <<<<"parsing", file_paths[idx]>>,
                                     <<"extracted", Len(r.value)>>>>
    /\ idx' = idx + 1
    /\ UNCHANGED <<pc, file_paths, fs, all_transcripts, merged_transcript,
                   markdown_output, transcript_md, exit_status, harnessVars>>

\* break in the place of continue
ParseFailBreak ==
    /\ pc = "loop"
    /\ idx <= Len(file_paths)
    /\ fs[file_paths[idx]].kind # "missing"
    /\ parse_transcript(fs[file_paths[idx]]).raised
    /\ stdout' = stdout \o <<<<"parsing", file_paths[idx]>>,
                              <<"error: parse failed", file_paths[idx]>>>>
    /\ idx' = Len(file_paths) + 1
    /\ UNCHANGED <<pc, file_paths, fs, heap, all_transcripts, merged_transcript,
                   markdown_output, transcript_md, exit_status, harnessVars>>

\* lines 117-119, 122-124: parse_transcript raises, the path is skipped
ParseFail ==
    /\ pc = "loop"
    /\ idx <= Len(file_paths)
    /\ fs[file_paths[idx]].kind # "missing"
    /\ parse_transcript(fs[file_paths[idx]]).raised
    /\ stdout' = stdout \o <<<<"parsing", file_paths[idx]>>,
                              <<"error: parse failed", file_paths[idx]>>>>
    /\ idx' = idx + 1
    /\ UNCHANGED <<pc, file_paths, fs, heap, all_transcripts, merged_transcript,
                   markdown_output, transcript_md, exit_status, harnessVars>>

\* no exit: the empty list of lists is merged and the run goes on
NoneParsedGoesOn ==
    /\ pc = "loop"
    /\ idx > Len(file_paths)
    /\ heap[all_transcripts[1]] = <<>>
    /\ LET r == merge_transcripts(heap, all_transcripts[1])
       IN  /\ heap' = r.heap
           /\ merged_transcript' = Some(r.ret)
           /\ stdout' = Append(stdout, <<"total", 0>>)
    /\ pc' = "format"
    /\ UNCHANGED <<file_paths, fs, idx, all_transcripts, markdown_output,
                   transcript_md, exit_status, harnessVars>>

\* the exit is taken when no record was extracted
NoneParsedNoRecords ==
    /\ pc = "loop"
    /\ idx > Len(file_paths)
    /\ \A k \in 1..Len(heap[all_transcripts[1]]) : heap[heap[all_transcripts[1]][k]] = <<>>
    /\ stdout' = Append(stdout, <<"error: nothing parsed">>)
    /\ exit_status' = Some(1)
    /\ pc' = "exit"
    /\ UNCHANGED <<file_paths, fs, idx, heap, all_transcripts, merged_transcript,
                   markdown_output, transcript_md, harnessVars>>

\* lines 126-128: nothing was parsed
NoneParsed ==
    /\ pc = "loop"
    /\ idx > Len(file_paths)
    /\ heap[all_transcripts[1]] = <<>>
    /\ stdout' = Append(stdout, <<"error: nothing parsed">>)
    /\ exit_status' = Some(1)
    /\ pc' = "exit"
    /\ UNCHANGED <<file_paths, fs, idx, heap, all_transcripts, merged_transcript,
                   markdown_output, transcript_md, harnessVars>>

\* lines 131-133, 137: several lists are merged
MergeAll ==
    /\ pc = "loop"
    /\ idx > Len(file_paths)
    /\ Len(heap[all_transcripts[1]]) > 1
    /\ LET r == merge_transcripts(heap, all_transcripts[1])
       IN  /\ heap' = r.heap
           /\ merged_transcript' = Some(r.ret)
           /\ stdout' = stdout \o <<<<"merging">>, <<"total", Len(r.heap[r.ret])>>>>
    /\ pc' = "format"
    /\ UNCHANGED <<file_paths, fs, idx, all_transcripts, markdown_output,
                   transcript_md, exit_status, harnessVars>>

\* lines 134-137: the only list is taken as it is
TakeOnly ==
    /\ pc = "loop"
    /\ idx > Len(file_paths)
    /\ Len(heap[all_transcripts[1]]) = 1
    /\ merged_transcript' = Some(heap[all_transcripts[1]][1])
    /\ stdout' = Append(stdout, <<"total", Len(heap[heap[all_transcripts[1]][1]])>>)
    /\ pc' = "format"
    /\ UNCHANGED <<file_paths, fs, idx, heap, all_transcripts, markdown_output,
                   transcript_md, exit_status, harnessVars>>

\* lines 140-146: the rendering, echoed
Format ==
    /\ pc = "format"
    /\ LET text == format_to_markdown(heap[merged_transcript[1]])
       IN  /\ markdown_output' = Some(text)
           /\ stdout' = stdout \o <<<<"banner">>, <<"markdown", text>>>>
    /\ pc' = "save"
    /\ UNCHANGED <<file_paths, fs, idx, heap, all_transcripts, merged_transcript,
                   transcript_md, exit_status, harnessVars>>

\* lines 149-152: the rendering is written to transcript.md; main returns
Save ==
    /\ pc = "save"
    /\ transcript_md' = markdown_output
    /\ stdout' = Append(stdout, <<"saved", "transcript.md">>)
    /\ exit_status' = Some(0)
    /\ pc' = "exit"
    /\ UNCHANGED <<file_paths, fs, idx, heap, all_transcripts, merged_transcript,
                   markdown_output, harnessVars>>

Next ==
    \/ Usage
    \/ StartLoop
    \/ SkipMissing
    \/ ParseOk
    \/ ParseFail
    \/ NoneParsed
    \/ MergeAll
    \/ TakeOnly
    \/ Format
    \/ Save

Spec == Init /\ [][Next]_vars

----------------------------------------------------------------------------
(* merge_transcripts on its own: three lists A, B, C cut from one sequence *)
(* of utterances, and the outer lists [A, B, C], [A, B], [B, C], [B, A].    *)

MainUnused ==
    /\ MainIdle
    /\ file_paths = <<>>
    /\ fs = <<>>

InitMerge ==
    /\ MainUnused
    /\ call = "none"
    /\ transcripts = None
    /\ ret = None
    /\ document = Missing
    /\ extracted = None
    /\ transcript = <<>>
    /\ rendered = None
    /\ \E all \in BoundedSeq(Utterances, MaxTotal) :
           \E i \in 0..Len(all) :
               \E j \in i..Len(all) :
                   heap = <<SubSeq(all, 1, i), SubSeq(all, i + 1, j),
                            SubSeq(all, j + 1, Len(all)),
                            <<1, 2, 3>>, <<1, 2>>, <<2, 3>>, <<2, 1>>>>

A == heap[1]
B == heap[2]
C == heap[3]

\* merged = merge_transcripts(outer) has returned r
Returned(r, outer, tag) ==
    /\ ret' = Some(r.ret)
    /\ transcripts' = Some(outer)
    /\ call' = tag
    /\ UNCHANGED <<mainVars, extractVars, formatVars>>

\* merge_transcripts([A, B, C])
MergeABC ==
    /\ call = "none"
    /\ LET r == merge_transcripts(heap, 4)
       IN  heap' = r.heap /\ Returned(r, 4, "abc")

\* m = merge_transcripts([A, B]); the list [m, C] is built
MergeAB ==
    /\ call = "none"
    /\ LET r == merge_transcripts(heap, 5)
       IN  heap' = Append(r.heap, <<r.ret, 3>>) /\ Returned(r, 5, "ab")

\* merge_transcripts([m, C])
MergeAB_C ==
    /\ call = "ab"
    /\ LET r == merge_transcripts(heap, Len(heap))
       IN  heap' = r.heap /\ Returned(r, Len(heap), "ab_c")

\* m = merge_transcripts([B, C]); the list [A, m] is built
MergeBC ==
    /\ call = "none"
    /\ LET r == merge_transcripts(heap, 6)
       IN  heap' = Append(r.heap, <<1, r.ret>>) /\ Returned(r, 6, "bc")

\* merge_transcripts([A, m])
MergeA_BC ==
    /\ call = "bc"
    /\ LET r == merge_transcripts(heap, Len(heap))
       IN  heap' = r.heap /\ Returned(r, Len(heap), "a_bc")

\* merge_transcripts([B, A])
MergeBA ==
    /\ call = "none"
    /\ LET r == merge_transcripts(heap, 7)
       IN  heap' = r.heap /\ Returned(r, 7, "ba")

NextMerge ==
    \/ MergeABC
    \/ MergeAB
    \/ MergeAB_C
    \/ MergeBC
    \/ MergeA_BC
    \/ MergeBA

SpecMerge == InitMerge /\ [][NextMerge]_vars

----------------------------------------------------------------------------
(* parse_transcript on its own *)

InitExtract ==
    /\ MainUnused
    /\ heap = <<>>
    /\ call = "none"
    /\ transcripts = None
    /\ ret = None
    /\ document \in {JsonFile(d) : d \in ExtractDocuments}
    /\ extracted = None
    /\ transcript = <<>>
    /\ rendered = None

\* transcript = parse_transcript(file_path)
CallParse ==
    /\ call = "none"
    /\ extracted' = Some(parse_transcript(document))
    /\ call' = "parse"
    /\ UNCHANGED <<mainVars, heap, mergeVars, document, formatVars>>

NextExtract == CallParse

SpecExtract == InitExtract /\ [][NextExtract]_vars

----------------------------------------------------------------------------
(* format_to_markdown on its own *)

InitFormat ==
    /\ MainUnused
    /\ heap = <<>>
    /\ call = "none"
    /\ transcripts = None
    /\ ret = None
    /\ document = Missing
    /\ extracted = None
    /\ transcript \in BoundedSeq(FormatRecords, MaxRecords)
    /\ rendered = None

\* markdown_output = format_to_markdown(transcript)
CallFormat ==
    /\ call = "none"
    /\ rendered' = Some(format_to_markdown(transcript))
    /\ call' = "format"
    /\ UNCHANGED <<mainVars, heap, mergeVars, extractVars, transcript>>

NextFormat == CallFormat

SpecFormat == InitFormat /\ [][NextFormat]_vars

----------------------------------------------------------------------------
(* Properties of merge_transcripts *)

RECURSIVE Flatten(_)
Flatten(seqs) == IF seqs = <<>> THEN <<>> ELSE seqs[1] \o Flatten(Tail(seqs))

\* the lists named by an outer list, in its order
ListsOf(h, outer) == [k \in 1..Len(h[outer]) |-> h[h[outer][k]]]

KeysOf(s) == {Key(s[k]) : k \in 1..Len(s)}
At(s, t) == SelectSeq(s, LAMBDA x : Key(x) = t)
Ascending(s) == \A i, j \in 1..Len(s) : i < j => Key(s[i]) <= Key(s[j])

\* out holds the records of cat, ascending, equal keys in the order of cat
StableSorted(out, cat) ==
    /\ Len(out) = Len(cat)
    /\ Ascending(out)
    /\ \A t \in KeysOf(out) \cup KeysOf(cat) : At(out, t) = At(cat, t)

MergeReturned == call \in {"abc", "ab", "ab_c", "bc", "a_bc", "ba"}

\* C1: the list merge_transcripts returns holds the records of the
\* concatenation of its inputs, taken in input order, ascending by start_time,
\* and records of equal start_time keep the order they have in that
\* concatenation.
C1_StableMerge ==
    MergeReturned =>
        StableSorted(heap[ret[1]], Flatten(ListsOf(heap, transcripts[1])))

\* [A, B, C] was merged, A and C share a start_time, and the concatenation
\* was not ascending
C1_Witness ==
    /\ call = "abc"
    /\ KeysOf(A) \cap KeysOf(C) # {}
    /\ B # <<>>
    /\ ~Ascending(A \o B \o C)
    /\ heap[ret[1]] # A \o B \o C

\* C8: a call of merge_transcripts leaves every list that existed before it,
\* the outer list included, with the elements it had, and returns a list that
\* did not exist before.
C8_InputsUntouched ==
    [][call' # call =>
          /\ \A k \in DOMAIN heap : heap'[k] = heap[k]
          /\ ret'[1] \notin DOMAIN heap]_vars

\* [m, C] was merged after m = merge([A, B]), and sorting moved records
C8_Witness ==
    /\ call = "ab_c"
    /\ heap[ret[1]] # heap[heap[transcripts[1]][1]] \o C
    /\ A # <<>>
    /\ C # <<>>

\* s and t have the same start_times at the same places and the same records
\* under each start_time
SameUpToTies(s, t) ==
    /\ Len(s) = Len(t)
    /\ \A k \in 1..Len(s) : Key(s[k]) = Key(t[k])
    /\ \A k \in KeysOf(s) :
           \A x \in Utterances :
               Len(SelectSeq(At(s, k), LAMBDA y : y = x))
                   = Len(SelectSeq(At(t, k), LAMBDA y : y = x))

\* C9: merge([merge([A, B]), C]) = merge([A, merge([B, C])]) = merge([A, B, C]),
\* and merge([B, A]) differs from merge([A, B]) at most in the order of
\* records of equal start_time.
C9_Grouping ==
    /\ call \in {"ab_c", "a_bc"} => heap[ret[1]] = Merge(<<A, B, C>>)
    /\ call = "ba" => SameUpToTies(heap[ret[1]], Merge(<<A, B>>))

\* [B, A] was merged and the result is not merge([A, B])
C9_Witness ==
    /\ call = "ba"
    /\ heap[ret[1]] # Merge(<<A, B>>)
    /\ KeysOf(A) \cap KeysOf(C) # {}

----------------------------------------------------------------------------
(* Properties of parse_transcript *)

HasParagraphs(data) == "minutes" \in DOMAIN data /\ "paragraphs" \in DOMAIN data.minutes

\* every text a paragraph holds, empty ones included, in source order
TextsOfWords(words) ==
    LET has == SelectSeq(words, LAMBDA w : "text" \in DOMAIN w)
    IN  [k \in 1..Len(has) |-> has[k].text]

TextsOfSentences(sentences) ==
    LET has == SelectSeq(sentences, LAMBDA x : "words" \in DOMAIN x)
    IN  Flatten([k \in 1..Len(has) |-> TextsOfWords(has[k].words)])

TextsOf(paragraph) ==
    IF "sentences" \in DOMAIN paragraph THEN TextsOfSentences(paragraph.sentences) ELSE <<>>

NonEmptyTextsOf(paragraph) == SelectSeq(TextsOf(paragraph), LAMBDA t : t # <<>>)
HasText(paragraph) == NonEmptyTextsOf(paragraph) # <<>>

\* no paragraph has a null where an object is expected
WellFormed(data) ==
    HasParagraphs(data) =>
        \A k \in 1..Len(data.minutes.paragraphs) :
            LET p == data.minutes.paragraphs[k]
            IN  "speaker" \in DOMAIN p => IsObject(p.speaker)

Parsed == call = "parse" /\ ~extracted[1].raised

\* C4: for a document with minutes.paragraphs the output has, in paragraph
\* order, one utterance for each paragraph with a non-empty word text and
\* none for the others; each content is the concatenation, without separator,
\* of the paragraph's non-empty word texts, and is never empty.
C4_OnePerParagraphWithText ==
    (Parsed /\ HasParagraphs(document.data)) =>
        LET out == extracted[1].value
            kept == SelectSeq(document.data.minutes.paragraphs, HasText)
        IN  /\ Len(out) = Len(kept)
            /\ \A k \in 1..Len(out) :
                   /\ out[k].content = Flatten(NonEmptyTextsOf(kept[k]))
                   /\ out[k].content # <<>>

\* a paragraph without text precedes one whose words hold two non-empty
\* texts and an empty one
C4_Witness ==
    /\ Parsed
    /\ HasParagraphs(document.data)
    /\ LET ps == document.data.minutes.paragraphs
       IN  /\ Len(ps) = 2
           /\ ~HasText(ps[1])
           /\ TextsOf(ps[1]) # <<>>
           /\ Len(NonEmptyTextsOf(ps[2])) = 2
           /\ Len(TextsOf(ps[2])) = 3
    /\ Len(extracted[1].value) = 1

\* C7: on a well-formed document parse_transcript does not raise; a document
\* without minutes or minutes.paragraphs gives the empty list; an utterance
\* has the placeholder name when speaker or speaker.user_name is absent and
\* start_time 0 when start_time is absent; a paragraph without sentences,
\* words or text gives no utterance.
C7_AbsentFieldsDefault ==
    (call = "parse" /\ WellFormed(document.data)) =>
        /\ ~extracted[1].raised
        /\ ~HasParagraphs(document.data) => extracted[1].value = <<>>
        /\ HasParagraphs(document.data) =>
               LET out == extracted[1].value
                   kept == SelectSeq(document.data.minutes.paragraphs, HasText)
               IN  /\ Len(out) = Len(kept)
                   /\ \A k \in 1..Len(out) :
                          /\ out[k].speaker_name =
                                 IF "speaker" \in DOMAIN kept[k]
                                        /\ "user_name" \in DOMAIN kept[k].speaker
                                 THEN kept[k].speaker.user_name
                                 ELSE UnknownSpeaker
                          /\ out[k].start_time =
                                 IF "start_time" \in DOMAIN kept[k]
                                 THEN kept[k].start_time
                                 ELSE 0

\* the only paragraph has a speaker without user_name, no start_time, a
\* sentence without words and a word without text next to one with text
C7_Witness ==
    /\ Parsed
    /\ HasParagraphs(document.data)
    /\ LET ps == document.data.minutes.paragraphs
       IN  /\ Len(ps) = 1
           /\ "speaker" \in DOMAIN ps[1]
           /\ IsObject(ps[1].speaker)
           /\ "user_name" \notin DOMAIN ps[1].speaker
           /\ "start_time" \notin DOMAIN ps[1]
           /\ "sentences" \in DOMAIN ps[1]
           /\ \E k \in 1..Len(ps[1].sentences) :
                  LET x == ps[1].sentences[k]
                  IN  /\ "words" \in DOMAIN x
                      /\ \E i \in 1..Len(x.words) : "text" \notin DOMAIN x.words[i]
    /\ Len(extracted[1].value) = 1
    /\ extracted[1].value[1].speaker_name = UnknownSpeaker
    /\ extracted[1].value[1].start_time = 0

----------------------------------------------------------------------------
(* Properties of format_to_markdown *)

\* **[speaker_name]**: content
Entry(record) ==
    <<"*", "*", "[">> \o record.speaker_name \o <<"]", "*", "*", ":", " ">>
        \o record.content

\* the entries of ts, each followed by entryEnd, with sep between them
RECURSIVE Entries(_, _, _)
Entries(ts, entryEnd, sep) ==
    IF Len(ts) = 1 THEN Entry(ts[1]) \o entryEnd
    ELSE Entry(ts[1]) \o entryEnd \o sep \o Entries(Tail(ts), entryEnd, sep)

AliceHello == [speaker_name |-> Alice, content |-> Hello, start_time |-> 0]

\* C3 as stated: each entry is its line, a newline and an empty line, the
\* entries are separated by one more newline, and the record (Alice, Hello)
\* alone renders as its line followed by two newlines.
C3_AsStated ==
    (call = "format" /\ transcript # <<>>) =>
        /\ rendered[1] = Entries(transcript, NL \o NL, NL)
        /\ transcript = <<AliceHello>> =>
               rendered[1] = Entry(AliceHello) \o <<"\n", "\n">>

\* C3: each entry is its line followed by one newline, the entries are
\* separated by one more newline, and the record (Alice, Hello) alone renders
\* as its line followed by one newline.
C3_EntryPerLine ==
    (call = "format" /\ transcript # <<>>) =>
        /\ rendered[1] = Entries(transcript, NL, NL)
        /\ transcript = <<AliceHello>> =>
               rendered[1] = Entry(AliceHello) \o <<"\n">>

\* two records were rendered, (Alice, Hello) first
C3_Witness ==
    /\ call = "format"
    /\ Len(transcript) = 2
    /\ transcript[1] = AliceHello
    /\ transcript[2] # AliceHello
    /\ rendered[1] = Entry(transcript[1]) \o <<"\n", "\n">> \o Entry(transcript[2]) \o <<"\n">>

----------------------------------------------------------------------------
(* Properties of main *)

\* the k-th identifier exists, loads and is extracted without an exception
Succeeds(k) ==
    /\ fs[file_paths[k]].kind # "missing"
    /\ ~parse_transcript(fs[file_paths[k]]).raised

\* the extracted sequences of the successful ones among the first k
\* identifiers, in the order of the identifiers
RECURSIVE Contributions(_)
Contributions(k) ==
    IF k = 0 THEN <<>>
    ELSE Contributions(k - 1)
             \o (IF Succeeds(k) THEN <<parse_transcript(fs[file_paths[k]]).value>>
                 ELSE <<>>)

AllContributions == Contributions(Len(file_paths))

\* extraction, the merge of more than one sequence, rendering
Pipeline(seqs) == format_to_markdown(IF Len(seqs) > 1 THEN Merge(seqs) ELSE seqs[1])

Exited == pc = "exit"

\* C2 as stated: with one document loaded, what is rendered and saved is
\* the rendering of merge_transcripts applied to its sequence alone.
C2_ShortcutIsMerge ==
    (Exited /\ Len(AllContributions) = 1) =>
        /\ transcript_md = Some(format_to_markdown(Merge(AllContributions)))
        /\ markdown_output = transcript_md

\* C5: a missing or failing identifier is skipped and the loop goes on; with
\* at least one successful identifier, the lists collected are the extracted
\* sequences of the successful identifiers in the caller's order, and the
\* text rendered and saved is the pipeline applied to them.
C5_SkipAndContinue ==
    /\ pc = "loop" =>
           ListsOf(heap, all_transcripts[1]) = Contributions(idx - 1)
    /\ (pc \in {"format", "save", "exit"} /\ AllContributions # <<>>) =>
           ListsOf(heap, all_transcripts[1]) = AllContributions
    /\ (markdown_output # None /\ AllContributions # <<>>) =>
           markdown_output = Some(Pipeline(AllContributions))
    /\ (Exited /\ AllContributions # <<>>) =>
           transcript_md = Some(Pipeline(AllContributions))

\* the first identifier failed after a paragraph was extracted, the second
\* gave records, and the rendering was saved
C5_Witness ==
    /\ Exited
    /\ Len(file_paths) = 2
    /\ fs[file_paths[1]] = JsonFile(DocOf(<<pA, pN>>))
    /\ Succeeds(2)
    /\ AllContributions[1] # <<>>
    /\ transcript_md = Some(format_to_markdown(AllContributions[1]))

\* C6: when every identifier fails the run ends with status 1, no list is
\* merged, nothing is rendered and transcript.md is not written; the merge,
\* the rendering and the save are reached only with a successful identifier.
C6_AllFailedExit ==
    /\ (Exited /\ AllContributions = <<>>) =>
           /\ exit_status = Some(1)
           /\ merged_transcript = None
           /\ markdown_output = None
           /\ transcript_md = None
    /\ (pc \in {"format", "save"} \/ merged_transcript # None
            \/ markdown_output # None \/ transcript_md # None) =>
           AllContributions # <<>>

\* two identifiers, one missing and one that fails to parse, and the exit
C6_Witness ==
    /\ Exited
    /\ Len(file_paths) = 2
    /\ \E k \in 1..2 : fs[file_paths[k]] = Missing
    /\ \E k \in 1..2 : fs[file_paths[k]].kind # "missing"
    /\ exit_status = Some(1)

NoRecords == \A k \in 1..Len(AllContributions) : AllContributions[k] = <<>>

\* C10: with a successful identifier and no record extracted, the run does
\* not exit with status 1; it goes on to the end, where the empty text was
\* rendered and saved to transcript.md and the status is 0.
C10_EmptyResult ==
    (AllContributions # <<>> /\ NoRecords) =>
        /\ exit_status # Some(1)
        /\ ~Exited => ENABLED Next
        /\ Exited =>
               /\ exit_status = Some(0)
               /\ markdown_output = Some(<<>>)
               /\ transcript_md = Some(<<>>)

\* two documents without records were merged and the empty text saved
C10_Witness ==
    /\ Exited
    /\ Len(AllContributions) = 2
    /\ NoRecords
    /\ transcript_md = Some(<<>>)
    /\ exit_status = Some(0)

====
